---- MODULE Spec2Model ----
(***************************************************************************)
(* The relevant-words cache of the content-analysis app                    *)
(* (src/unnamed/part_000): calculateRelevantWords and its two memoizing    *)
(* entry points, relevantWordsForInternalLinking and                       *)
(* relevantWordsForInsights.                                                *)
(*                                                                         *)
(* A string is a sequence of blocks; a block is a run of word tokens that  *)
(* either is a top-level subheading or is not.  The empty string is <<>>.  *)
(* A word is a sequence of letters.  A locale is <<language, region>>.     *)
(***************************************************************************)
EXTENDS Integers, Sequences, FiniteSets, TLC

VARIABLES
    previousRelevantWordsInternalLinking,   \* the internal-linking cache entry
    previousRelevantWordsInsights,          \* the insights cache entry
    calls                                   \* the calls made so far, oldest first

vars == <<previousRelevantWordsInternalLinking, previousRelevantWordsInsights, calls>>

(***************************************************************************)
(* Words and their order.                                                  *)
(***************************************************************************)
Alphabet ==
    <<"a", "b", "c", "d", "e", "f", "g", "h", "i", "j", "k", "l", "m",
      "n", "o", "p", "q", "r", "s", "t", "u", "v", "w", "x", "y", "z">>

LetterRank ==
    [l \in {Alphabet[i] : i \in DOMAIN Alphabet} |->
        CHOOSE i \in DOMAIN Alphabet : Alphabet[i] = l]

\* u.localeCompare( v ) < 0 for lower-case words: lexicographic order.
RECURSIVE LexLessFrom(_, _, _)
LexLessFrom(u, v, i) ==
    IF i > Len(u) THEN i <= Len(v)
    ELSE IF i > Len(v) THEN FALSE
    ELSE IF u[i] = v[i] THEN LexLessFrom(u, v, i + 1)
    ELSE LetterRank[u[i]] < LetterRank[v[i]]

LexLess(u, v) == LexLessFrom(u, v, 1)

\* The array of the values of a map over the places of an array.
Array(map) == map \o <<>>

\* A string that holds the given words and no markup.
Plain(words) == IF words = <<>> THEN <<>> ELSE <<[heading |-> FALSE, words |-> words]>>

\* A string that is one top-level subheading.
Heading(words) == <<[heading |-> TRUE, words |-> words]>>

RECURSIVE Tokens(_)
\* The word tokens of a string, in order (the tokenizer).
Tokens(string) ==
    IF string = <<>> THEN <<>> ELSE Head(string).words \o Tokens(Tail(string))

(***************************************************************************)
(* lodash-es.                                                              *)
(***************************************************************************)
isEqual(x, y) == x = y

take(array, n) == SubSeq(array, 1, IF n < Len(array) THEN n ELSE Len(array))

(***************************************************************************)
(* Language and morphology data.                                           *)
(***************************************************************************)
getLanguage(locale) == locale[1]

\* Absent morphology data (the value false): stemming is the identity.
NoMorphologyData == {}

\* Per language, the suffixes the stemmer strips.
morphologyData == [en |-> {<<"s">>}]

\* get( morphologyData, language, false )
get(object, path, defaultValue) ==
    IF path \in DOMAIN object THEN object[path] ELSE defaultValue

HasSuffix(word, suffix) ==
    /\ Len(word) > Len(suffix)
    /\ SubSeq(word, Len(word) - Len(suffix) + 1, Len(word)) = suffix

\* The stem of a word: the word without one of the language's suffixes, the word
\* itself when there is no morphology data.
Stem(word, languageMorphologyData) ==
    IF \E suffix \in languageMorphologyData : HasSuffix(word, suffix)
    THEN LET suffix == CHOOSE s \in languageMorphologyData : HasSuffix(word, s)
         IN  SubSeq(word, 1, Len(word) - Len(suffix))
    ELSE word

(***************************************************************************)
(* yoastsrc/stringProcessing/getSubheadings.                               *)
(***************************************************************************)
IsHeading(block) == block.heading

IsBody(block) == ~block.heading

getSubheadingsTopLevel(text) == SelectSeq(text, IsHeading)

removeSubheadingsTopLevel(text) == SelectSeq(text, IsBody)

(***************************************************************************)
(* yoastsrc/stringProcessing/relevantWords.                                *)
(***************************************************************************)
\* The places of a sequence that hold a value no earlier place holds, in order.
FirstPlaces(keys) ==
    LET IsFirst(i) == \A j \in 1..(i - 1) : keys[j] # keys[i]
    IN  SelectSeq(Array([i \in DOMAIN keys |-> i]), IsFirst)

\* One entry per distinct word of tokens, in order of first appearance (the
\* places given), with the number of times the word appears.
CountWords(tokens, places, languageMorphologyData) ==
    Array([k \in DOMAIN places |->
        [word |-> tokens[places[k]],
         stem |-> Stem(tokens[places[k]], languageMorphologyData),
         occurrences |->
             Cardinality({i \in DOMAIN tokens : tokens[i] = tokens[places[k]]})]])

WordsOfTokens(tokens, languageMorphologyData) ==
    CountWords(tokens, FirstPlaces(tokens), languageMorphologyData)

getRelevantWords(text, language, languageMorphologyData) ==
    WordsOfTokens(Tokens(text), languageMorphologyData)

RECURSIVE Join(_)
\* The strings of a list, one after the other.
Join(strings) == IF strings = <<>> THEN <<>> ELSE Head(strings) \o Join(Tail(strings))

getRelevantWordsFromPaperAttributes(attributes, language, languageMorphologyData) ==
    getRelevantWords(
        attributes.keyphrase \o attributes.synonyms \o attributes.metadescription
            \o attributes.title \o Join(attributes.subheadings),
        language, languageMorphologyData)

RECURSIVE SumOccurrences(_, _)
\* The sum of the occurrences of the words at the given places.
SumOccurrences(relevantWords, places) ==
    IF places = {} THEN 0
    ELSE LET i == CHOOSE j \in places : TRUE
         IN  relevantWords[i].occurrences + SumOccurrences(relevantWords, places \ {i})

\* The occurrences of a surface form.
FormOccurrences(relevantWords, word) ==
    SumOccurrences(relevantWords,
                   {i \in DOMAIN relevantWords : relevantWords[i].word = word})

\* The best of the surface forms: the most frequent one, the lexicographically
\* smallest of the most frequent ones.
BestForm(relevantWords, forms) ==
    LET Better(u, v) ==
            \/ FormOccurrences(relevantWords, u) > FormOccurrences(relevantWords, v)
            \/ /\ FormOccurrences(relevantWords, u) = FormOccurrences(relevantWords, v)
               /\ LexLess(u, v)
    IN  CHOOSE u \in forms : \A v \in forms \ {u} : Better(u, v)

\* The surface form that stands for the words at the given places.
Representative(relevantWords, places) ==
    IF Cardinality(places) = 1
    THEN relevantWords[CHOOSE i \in places : TRUE].word
    ELSE BestForm(relevantWords, {relevantWords[i].word : i \in places})

\* The entry of the words at the given places, which share a stem.
Collapsed(relevantWords, places, stem) ==
    [word |-> Representative(relevantWords, places),
     stem |-> stem,
     occurrences |-> SumOccurrences(relevantWords, places)]

\* One entry per stem, in order of the stem's first appearance (the places
\* given), its occurrences the sum over the words that share the stem.
CollapseAt(relevantWords, places) ==
    Array([k \in DOMAIN places |->
        Collapsed(relevantWords,
                  {i \in DOMAIN relevantWords :
                      relevantWords[i].stem = relevantWords[places[k]].stem},
                  relevantWords[places[k]].stem)])

collapseRelevantWordsOnStem(relevantWords) ==
    CollapseAt(relevantWords,
               FirstPlaces(Array([i \in DOMAIN relevantWords |-> relevantWords[i].stem])))

\* The order of sortCombinations: more occurrences first, then the word that
\* comes first alphabetically.
ComesBefore(a, b) ==
    \/ a.occurrences > b.occurrences
    \/ a.occurrences = b.occurrences /\ LexLess(a.word, b.word)

\* The place of each combination after sorting: after the ones that come
\* before it, and after the earlier ones it ties with.
SortedPlaces(wordCombinations) ==
    Array([k \in DOMAIN wordCombinations |->
        1 + Cardinality({j \in DOMAIN wordCombinations :
                \/ ComesBefore(wordCombinations[j], wordCombinations[k])
                \/ /\ j < k
                   /\ ~ComesBefore(wordCombinations[k], wordCombinations[j])})])

Rearranged(wordCombinations, places) ==
    Array([r \in DOMAIN wordCombinations |->
        wordCombinations[CHOOSE k \in DOMAIN wordCombinations : places[k] = r]])

sortCombinations(wordCombinations) ==
    Rearranged(wordCombinations, SortedPlaces(wordCombinations))

getRelevantCombinations(wordCombinations, minimalNumberOfOccurrences) ==
    LET Relevant(combination) == combination.occurrences >= minimalNumberOfOccurrences
    IN  SelectSeq(wordCombinations, Relevant)

(***************************************************************************)
(* calculateRelevantWords.                                                 *)
(***************************************************************************)
MinOccurrencesInternalLinking == 2

MaxWordsInternalLinking == 100

MinOccurrencesInsights == 5

MaxWordsInsights == 20

\* The data of a cache entry that was never computed: the object {}, which is no
\* array.
EmptyObject == [array |-> FALSE, items |-> <<>>]

\* A slip: the top-level subheadings stay in the text for internal linking.
relevantWordsFromTextWithSubheadings(paper, internalLinking) ==
    LET language == getLanguage(paper.locale)
    IN  getRelevantWords(paper.text, language,
                         get(morphologyData, language, NoMorphologyData))

\* The words of the text: for internal linking without its top-level
\* subheadings.
relevantWordsFromText(paper, internalLinking) ==
    LET language == getLanguage(paper.locale)
        languageMorphologyData == get(morphologyData, language, NoMorphologyData)
    IN  IF internalLinking
        THEN getRelevantWords(removeSubheadingsTopLevel(paper.text), language,
                              languageMorphologyData)
        ELSE getRelevantWords(paper.text, language, languageMorphologyData)

\* The words of keyphrase, synonyms, meta description, title and top-level
\* subheadings, as getRelevantWordsFromPaperAttributes returns them.
wordsOfPaperAttributes(paper) ==
    LET language == getLanguage(paper.locale)
        topLevel == getSubheadingsTopLevel(paper.text)
        subheadings == Array([i \in DOMAIN topLevel |-> Plain(topLevel[i].words)])
    IN  getRelevantWordsFromPaperAttributes(
            [keyphrase |-> paper.keyword,
             synonyms |-> paper.synonyms,
             metadescription |-> paper.description,
             title |-> paper.title,
             subheadings |-> subheadings],
            language, get(morphologyData, language, NoMorphologyData))

\* The occurrences of every word times the factor.
Scaled(words, factor) ==
    Array([i \in DOMAIN words |-> [words[i] EXCEPT !.occurrences = @ * factor]])

\* A slip: the occurrences of the attribute words are not multiplied.
relevantWordsFromPaperAttributesUnscaled(paper, internalLinking) ==
    IF internalLinking THEN wordsOfPaperAttributes(paper) ELSE <<>>

\* A slip: the attribute words are taken for insights as well.
relevantWordsFromPaperAttributesInBothModes(paper, internalLinking) ==
    Scaled(wordsOfPaperAttributes(paper), 3)

\* The words of the paper attributes: for internal linking each with three
\* times its occurrences, none for insights.
relevantWordsFromPaperAttributes(paper, internalLinking) ==
    IF internalLinking THEN Scaled(wordsOfPaperAttributes(paper), 3) ELSE <<>>

\* The words of a paper before they are collapsed: for internal linking the
\* words of the paper attributes, three times each, then the words of the text
\* without its top-level subheadings; for insights the words of the text.
combinedWords(paper, internalLinking) ==
    relevantWordsFromPaperAttributes(paper, internalLinking)
        \o relevantWordsFromText(paper, internalLinking)

\* A slip: the combined words are sorted without being collapsed.
collapsedWordsUncollapsed(paper, internalLinking) ==
    sortCombinations(combinedWords(paper, internalLinking))

\* A slip: the collapsed words are not sorted.
collapsedWordsUnsorted(paper, internalLinking) ==
    collapseRelevantWordsOnStem(combinedWords(paper, internalLinking))

\* The collapsed and sorted words of a paper.
collapsedWords(paper, internalLinking) ==
    sortCombinations(collapseRelevantWordsOnStem(combinedWords(paper, internalLinking)))

\* A slip: the internal-linking words are not filtered by occurrences.
relevantWordsUnfiltered(collapsed, internalLinking) ==
    IF internalLinking
    THEN take(collapsed, MaxWordsInternalLinking)
    ELSE take(getRelevantCombinations(collapsed, MinOccurrencesInsights), MaxWordsInsights)

\* A slip: the insights words are cut at the limit of internal linking.
relevantWordsOneLimit(collapsed, internalLinking) ==
    IF internalLinking
    THEN take(getRelevantCombinations(collapsed, MinOccurrencesInternalLinking),
              MaxWordsInternalLinking)
    ELSE take(getRelevantCombinations(collapsed, MinOccurrencesInsights),
              MaxWordsInternalLinking)

\* The words of the result: those of enough occurrences, the first ones up to
\* the limit of the mode.
relevantWords(collapsed, internalLinking) ==
    IF internalLinking
    THEN take(getRelevantCombinations(collapsed, MinOccurrencesInternalLinking),
              MaxWordsInternalLinking)
    ELSE take(getRelevantCombinations(collapsed, MinOccurrencesInsights),
              MaxWordsInsights)

\* Rounding.  A number with up to five decimals is held as its multiple of
\* 1 / Fraction, so that 3.00006 is 300006 and the integer n is n * Fraction.
Decimals == 10000

Fraction == 10 * Decimals

Number(n) == n * Fraction

\* Math.round( number / unit ): the nearest integer, a half rounded up.
MathRound(number, unit) == (2 * number + unit) \div (2 * unit)

formatNumber(number) ==
    IF Number(MathRound(number, Fraction)) = number
    THEN number
    ELSE MathRound(number, Fraction \div Decimals) * (Fraction \div Decimals)

\* A slip: the occurrences are rounded to a multiple of 10000, not of 1/10000.
relevantWordObjectRoundedToTenThousands(word) ==
    [word |-> word.word,
     stem |-> word.stem,
     occurrences |-> MathRound(word.occurrences, Decimals) * Decimals]

\* The object returned for a relevant word: its occurrences as they are.
relevantWordObject(word) ==
    [word |-> word.word,
     stem |-> word.stem,
     occurrences |-> word.occurrences]

calculateRelevantWords(paper, internalLinking) ==
    LET words == relevantWords(collapsedWords(paper, internalLinking), internalLinking)
    IN  [array |-> TRUE,
         items |-> Array([i \in DOMAIN words |-> relevantWordObject(words[i])])]

\* A value that is not a string (null, a number) where a paper should hold
\* one: it equals no string.
NotAString == <<[heading |-> FALSE, words |-> <<<<"0">>>>]>>

IsString(value) == value # NotAString

\* calculateRelevantWords raises a TypeError: the text is split into words
\* first, which fails on a text that is not a string.
Throws(paper, internalLinking) == ~IsString(paper.text)

\* What a call that raises returns: nothing.
NoResult == [array |-> FALSE, items |-> <<>>]

(***************************************************************************)
(* The cache and its two entry points.                                     *)
(***************************************************************************)
DefaultLocale == <<"en", "US">>

Init ==
    /\ previousRelevantWordsInternalLinking =
           [text |-> <<>>, locale |-> DefaultLocale, description |-> <<>>,
            keyword |-> <<>>, synonyms |-> <<>>, title |-> <<>>, data |-> EmptyObject]
    /\ previousRelevantWordsInsights =
           [text |-> <<>>, locale |-> DefaultLocale, data |-> EmptyObject]
    /\ calls = <<>>

\* A slip: the condition compares against a value no field equals, and holds
\* on every call.
InternalLinkingIsStaleAlways(paper) == TRUE

\* A slip: the condition leaves out the title.
InternalLinkingIsStaleWithoutTitle(paper) ==
    \/ ~isEqual(paper.text, previousRelevantWordsInternalLinking.text)
    \/ ~isEqual(paper.locale, previousRelevantWordsInternalLinking.locale)
    \/ ~isEqual(paper.description, previousRelevantWordsInternalLinking.description)
    \/ ~isEqual(paper.keyword, previousRelevantWordsInternalLinking.keyword)
    \/ ~isEqual(paper.synonyms, previousRelevantWordsInternalLinking.synonyms)

\* The condition of relevantWordsForInternalLinking: a tracked field changed.
InternalLinkingIsStale(paper) ==
    \/ ~isEqual(paper.text, previousRelevantWordsInternalLinking.text)
    \/ ~isEqual(paper.locale, previousRelevantWordsInternalLinking.locale)
    \/ ~isEqual(paper.description, previousRelevantWordsInternalLinking.description)
    \/ ~isEqual(paper.keyword, previousRelevantWordsInternalLinking.keyword)
    \/ ~isEqual(paper.synonyms, previousRelevantWordsInternalLinking.synonyms)
    \/ ~isEqual(paper.title, previousRelevantWordsInternalLinking.title)

\* A slip: the entry stored on a miss keeps the title of the entry before.
InternalLinkingEntryKeepingTitle(paper) ==
    [text |-> paper.text,
     locale |-> paper.locale,
     description |-> paper.description,
     keyword |-> paper.keyword,
     synonyms |-> paper.synonyms,
     title |-> previousRelevantWordsInternalLinking.title,
     data |-> calculateRelevantWords(paper, TRUE)]

\* The entry relevantWordsForInternalLinking stores on a miss.
InternalLinkingEntry(paper) ==
    [text |-> paper.text,
     locale |-> paper.locale,
     description |-> paper.description,
     keyword |-> paper.keyword,
     synonyms |-> paper.synonyms,
     title |-> paper.title,
     data |-> calculateRelevantWords(paper, TRUE)]

\* A slip: the fields of the entry are stored one by one, the data last, so
\* that a computation that raises leaves the fields of its paper behind.
relevantWordsForInternalLinkingStoringFirst(paper) ==
    LET stale == InternalLinkingIsStale(paper)
        raised == stale /\ Throws(paper, TRUE)
        entry == IF raised
                 THEN [text |-> paper.text,
                       locale |-> paper.locale,
                       description |-> paper.description,
                       keyword |-> paper.keyword,
                       synonyms |-> paper.synonyms,
                       title |-> paper.title,
                       data |-> previousRelevantWordsInternalLinking.data]
                 ELSE IF stale THEN InternalLinkingEntry(paper)
                 ELSE previousRelevantWordsInternalLinking
    IN  /\ previousRelevantWordsInternalLinking' = entry
        /\ calls' = Append(calls, [mode |-> "internalLinking", paper |-> paper,
                                   computed |-> stale, raised |-> raised,
                                   result |-> IF raised THEN NoResult ELSE entry.data])
        /\ UNCHANGED previousRelevantWordsInsights

\* On a miss the entry is assigned once its data are computed; a computation
\* that raises leaves the call before the assignment.
relevantWordsForInternalLinking(paper) ==
    LET stale == InternalLinkingIsStale(paper)
        raised == stale /\ Throws(paper, TRUE)
        entry == IF stale /\ ~raised THEN InternalLinkingEntry(paper)
                 ELSE previousRelevantWordsInternalLinking
    IN  /\ previousRelevantWordsInternalLinking' = entry
        /\ calls' = Append(calls, [mode |-> "internalLinking", paper |-> paper,
                                   computed |-> stale, raised |-> raised,
                                   result |-> IF raised THEN NoResult ELSE entry.data])
        /\ UNCHANGED previousRelevantWordsInsights

\* A slip: the condition leaves out the text.
InsightsIsStaleWithoutText(paper) ==
    ~isEqual(paper.locale, previousRelevantWordsInsights.locale)

\* A slip: the condition leaves out the locale.
InsightsIsStaleWithoutLocale(paper) ==
    ~isEqual(paper.text, previousRelevantWordsInsights.text)

\* The condition of relevantWordsForInsights: the text or the locale changed.
InsightsIsStale(paper) ==
    \/ ~isEqual(paper.text, previousRelevantWordsInsights.text)
    \/ ~isEqual(paper.locale, previousRelevantWordsInsights.locale)

\* The entry relevantWordsForInsights stores on a miss.
InsightsEntry(paper) ==
    [text |-> paper.text,
     locale |-> paper.locale,
     data |-> calculateRelevantWords(paper, FALSE)]

\* A slip: a miss of relevantWordsForInsights stores its entry in the
\* internal-linking variable as well.
relevantWordsForInsightsInBothEntries(paper) ==
    LET stale == InsightsIsStale(paper)
        raised == stale /\ Throws(paper, FALSE)
        entry == IF stale /\ ~raised THEN InsightsEntry(paper)
                 ELSE previousRelevantWordsInsights
    IN  /\ previousRelevantWordsInsights' = entry
        /\ previousRelevantWordsInternalLinking' =
               IF stale /\ ~raised
               THEN [previousRelevantWordsInternalLinking EXCEPT
                        !.text = entry.text, !.locale = entry.locale, !.data = entry.data]
               ELSE previousRelevantWordsInternalLinking
        /\ calls' = Append(calls, [mode |-> "insights", paper |-> paper,
                                   computed |-> stale, raised |-> raised,
                                   result |-> IF raised THEN NoResult ELSE entry.data])

relevantWordsForInsights(paper) ==
    LET stale == InsightsIsStale(paper)
        raised == stale /\ Throws(paper, FALSE)
        entry == IF stale /\ ~raised THEN InsightsEntry(paper)
                 ELSE previousRelevantWordsInsights
    IN  /\ previousRelevantWordsInsights' = entry
        /\ calls' = Append(calls, [mode |-> "insights", paper |-> paper,
                                   computed |-> stale, raised |-> raised,
                                   result |-> IF raised THEN NoResult ELSE entry.data])
        /\ UNCHANGED previousRelevantWordsInternalLinking

(***************************************************************************)
(* The papers of the callers.                                              *)
(***************************************************************************)
bird == <<"b", "i", "r", "d">>
cat == <<"c", "a", "t">>
cats == <<"c", "a", "t", "s">>
dog == <<"d", "o", "g">>
seo == <<"s", "e", "o">>
yoast == <<"y", "o", "a", "s", "t">>

ArticleText ==
    Heading(<<yoast, seo>>)
        \o Plain(<<dog, cats, cat, dog, cat, bird, dog, dog, cat, cats, cat, dog, bird, dog>>)

Texts == {<<>>, ArticleText}

Locales == {DefaultLocale, <<"nl", "NL">>}

Descriptions == {<<>>, Plain(<<dog, bird>>)}

Keywords == {<<>>, Plain(<<seo>>)}

Synonyms == {<<>>, Plain(<<cats>>)}

Titles == {<<>>, Plain(<<yoast>>)}

AllPapers ==
    [text : Texts, locale : Locales, description : Descriptions,
     keyword : Keywords, synonyms : Synonyms, title : Titles]

DefaultPaper ==
    [text |-> <<>>, locale |-> DefaultLocale, description |-> <<>>,
     keyword |-> <<>>, synonyms |-> <<>>, title |-> <<>>]

ArticlePaper ==
    [text |-> ArticleText, locale |-> DefaultLocale, description |-> Plain(<<dog, bird>>),
     keyword |-> Plain(<<seo>>), synonyms |-> Plain(<<cats>>), title |-> Plain(<<yoast>>)]

TrackedFields == {"text", "locale", "description", "keyword", "synonyms", "title"}

DifferingFields(p, q) == {f \in TrackedFields : p[f] # q[f]}

\* The papers of the cache runs: the empty paper, a full article, and each of
\* the two with one field changed.
Papers ==
    {p \in AllPapers :
        \E base \in {DefaultPaper, ArticlePaper} : Cardinality(DifferingFields(p, base)) <= 1}

MaxCalls == 3

Next ==
    /\ Len(calls) < MaxCalls
    /\ \E paper \in Papers :
           \/ relevantWordsForInternalLinking(paper)
           \/ relevantWordsForInsights(paper)

Spec == Init /\ [][Next]_vars

\* The callers may pass a paper whose text is not a string as well.
MalformedPapers ==
    {[DefaultPaper EXCEPT !.text = NotAString],
     [ArticlePaper EXCEPT !.text = NotAString]}

NextFailure ==
    /\ Len(calls) < MaxCalls
    /\ \E paper \in Papers \cup MalformedPapers :
           \/ relevantWordsForInternalLinking(paper)
           \/ relevantWordsForInsights(paper)

SpecFailure == Init /\ [][NextFailure]_vars

(***************************************************************************)
(* The papers of the runs of calculateRelevantWords alone: generated texts *)
(* of many distinct words, around the sizes the limits cut at.             *)
(***************************************************************************)
\* The i-th generated word: two letters, distinct for distinct i, not in
\* alphabetical order of i.
Word(i) == <<Alphabet[1 + ((i * 7) % 26)], Alphabet[1 + ((i \div 26) % 26)]>>

Margin == 2

\* The occurrences of the generated words: word k occurs base + (k % spread)
\* times, the bases just below and at the two minimums.
Bases ==
    {MinOccurrencesInternalLinking - 1, MinOccurrencesInternalLinking,
     MinOccurrencesInsights - 1, MinOccurrencesInsights}

Spreads == {1, 2}

\* The numbers of distinct words: none, and around the two limits.
WordCounts ==
    {n \in 0..(MaxWordsInternalLinking + Margin) :
        \E limit \in {0, MaxWordsInsights, MaxWordsInternalLinking} :
            /\ n >= limit - Margin
            /\ n <= limit + Margin}

\* The words 1..n that occur at least round times, in order.
Round(round, n, base, spread) ==
    LET Occurs(k) == base + (k % spread) >= round
        places == SelectSeq(Array([k \in 1..n |-> k]), Occurs)
    IN  Array([i \in DOMAIN places |-> Word(places[i])])

RECURSIVE GeneratedTokens(_, _, _, _)
\* Words 1..n, word k base + (k % spread) times: all of them once, then again
\* those that occur twice, and so on.
GeneratedTokens(round, n, base, spread) ==
    IF round > base + spread THEN <<>>
    ELSE Round(round, n, base, spread) \o GeneratedTokens(round + 1, n, base, spread)

GeneratedTexts ==
    {Plain(GeneratedTokens(1, n, base, spread)) :
        n \in WordCounts, base \in Bases, spread \in Spreads}

\* The example of the ranking order: dog and cat five times, bird three times.
RankingText ==
    Plain(<<dog, cat, bird, dog, cat, bird, dog, cat, bird, dog, cat, dog, cat>>)

\* A word once in the text and once in the title.
WeightingPaper ==
    [text |-> Plain(<<yoast>>), locale |-> DefaultLocale, description |-> <<>>,
     keyword |-> <<>>, synonyms |-> <<>>, title |-> Plain(<<yoast>>)]

CalculationPapers ==
    AllPapers
        \cup {WeightingPaper}
        \cup [text : GeneratedTexts \cup {RankingText}, locale : {DefaultLocale},
              description : {<<>>}, keyword : {<<>>}, synonyms : {<<>>},
              title : {<<>>, Plain(<<Word(1), Word(MaxWordsInsights)>>)}]

\* The first call of a fresh process, with any of the calculation papers.
NextCalculation ==
    /\ calls = <<>>
    /\ \E paper \in CalculationPapers :
           \/ relevantWordsForInternalLinking(paper)
           \/ relevantWordsForInsights(paper)

SpecCalculation == Init /\ [][NextCalculation]_vars

(***************************************************************************)
(* The claims about the cache.                                             *)
(***************************************************************************)
InternalLinking == "internalLinking"

Insights == "insights"

\* The last call made.
Last == calls[Len(calls)]

\* In a step: a call was made, and the call it was.
IsCall == Len(calls') = Len(calls) + 1

NewCall == calls'[Len(calls')]

\* The result of the full computation for a paper in a mode.
Computed(paper, mode) == calculateRelevantWords(paper, mode = InternalLinking)

\* The fields a mode tracks, and the entry it stores.
Tracked(mode) == IF mode = InternalLinking THEN TrackedFields ELSE {"text", "locale"}

Stored(mode) ==
    IF mode = InternalLinking THEN previousRelevantWordsInternalLinking
    ELSE previousRelevantWordsInsights

\* A tracked field of the paper differs from the stored entry of the mode.
DiffersFromStored(paper, mode) == \E f \in Tracked(mode) : paper[f] # Stored(mode)[f]

\* Calls i - 2, i - 1, i are A, B, A in one mode, B differing from A in a
\* tracked field.
IsRevert(i) ==
    /\ i >= 3
    /\ calls[i - 1].mode = calls[i].mode
    /\ calls[i - 2].mode = calls[i].mode
    /\ calls[i - 2].paper = calls[i].paper
    /\ \E f \in Tracked(calls[i].mode) : calls[i - 1].paper[f] # calls[i].paper[f]

RevertRecomputes ==
    \A i \in DOMAIN calls :
        IsRevert(i) =>
            /\ calls[i].computed
            /\ calls[i].result = Computed(calls[i].paper, calls[i].mode)

\* C1: a call whose tracked fields differ from the entry stored for its mode
\* recomputes and returns the result for its own paper; in the call sequence
\* A, B, A in one mode, B differing from A in a tracked field, the third call
\* recomputes and returns the result for A.
CacheInvalidation ==
    /\ [][(IsCall /\ DiffersFromStored(NewCall.paper, NewCall.mode))
              => (NewCall.computed
                    /\ NewCall.result = Computed(NewCall.paper, NewCall.mode))]_vars
    /\ []RevertRecomputes

\* Three insights calls A, B, A, B of another locale than A, and the third
\* call returns another result than the second.
CacheInvalidationWitness ==
    /\ Len(calls) = 3
    /\ \A i \in 1..3 : calls[i].mode = Insights
    /\ calls[1].paper = calls[3].paper
    /\ DifferingFields(calls[2].paper, calls[3].paper) = {"locale"}
    /\ calls[3].computed
    /\ calls[3].result # calls[2].result
    /\ calls[3].result = calls[1].result

\* C2: a call whose tracked fields all equal the stored entry of its mode does
\* not compute, returns the stored data and leaves the entry as it is.
CacheHit ==
    [][(IsCall /\ ~DiffersFromStored(NewCall.paper, NewCall.mode))
          => /\ ~NewCall.computed
             /\ NewCall.result = Stored(NewCall.mode).data
             /\ previousRelevantWordsInternalLinking' = previousRelevantWordsInternalLinking
             /\ previousRelevantWordsInsights' = previousRelevantWordsInsights]_vars

\* An internal-linking call served from an entry an earlier call computed.
CacheHitWitness ==
    /\ Len(calls) >= 2
    /\ Last.mode = InternalLinking
    /\ ~Last.computed
    /\ Last.result.array
    /\ Last.result.items # <<>>
    /\ Last.result = previousRelevantWordsInternalLinking.data

\* C3: the same paper in the same mode gets the same result on every call.
Determinism ==
    \A i, j \in DOMAIN calls :
        (calls[i].mode = calls[j].mode /\ calls[i].paper = calls[j].paper)
            => calls[i].result = calls[j].result

\* C4: a call of one mode leaves the entry of the other mode as it is.
ModeIndependence ==
    [][IsCall =>
          /\ NewCall.mode = Insights =>
                 previousRelevantWordsInternalLinking' = previousRelevantWordsInternalLinking
          /\ NewCall.mode = InternalLinking =>
                 previousRelevantWordsInsights' = previousRelevantWordsInsights]_vars

\* An insights call that computed, after an internal-linking call that computed
\* for another paper; the internal-linking entry still holds that paper.
ModeIndependenceWitness ==
    /\ Len(calls) = 2
    /\ calls[1].mode = InternalLinking /\ calls[1].computed
    /\ calls[2].mode = Insights /\ calls[2].computed
    /\ calls[1].paper.text # calls[2].paper.text
    /\ previousRelevantWordsInternalLinking.text = calls[1].paper.text
    /\ previousRelevantWordsInternalLinking.data = calls[1].result
    /\ calls[1].result.items # <<>>

\* C5: an internal-linking call computes iff one of text, locale, description,
\* keyword, synonyms, title differs from the stored entry; an insights call
\* computes iff text or locale differs.
StalenessKey ==
    [][IsCall =>
          /\ NewCall.mode = InternalLinking =>
                 (NewCall.computed <=>
                      \/ NewCall.paper.text # previousRelevantWordsInternalLinking.text
                      \/ NewCall.paper.locale # previousRelevantWordsInternalLinking.locale
                      \/ NewCall.paper.description
                             # previousRelevantWordsInternalLinking.description
                      \/ NewCall.paper.keyword # previousRelevantWordsInternalLinking.keyword
                      \/ NewCall.paper.synonyms # previousRelevantWordsInternalLinking.synonyms
                      \/ NewCall.paper.title # previousRelevantWordsInternalLinking.title)
          /\ NewCall.mode = Insights =>
                 (NewCall.computed <=>
                      \/ NewCall.paper.text # previousRelevantWordsInsights.text
                      \/ NewCall.paper.locale # previousRelevantWordsInsights.locale)]_vars

\* An insights call that is a hit although its paper differs in the title from
\* the paper the entry was computed for, and an internal-linking call that is a
\* miss for the same difference.
StalenessKeyWitness ==
    /\ Len(calls) = 3
    /\ calls[1].mode = Insights /\ calls[1].computed
    /\ calls[2].mode = Insights /\ ~calls[2].computed
    /\ DifferingFields(calls[1].paper, calls[2].paper) = {"title"}
    /\ calls[3].mode = InternalLinking /\ calls[3].computed
    /\ calls[3].paper = calls[2].paper

\* A mode's entry was written: a call of the mode computed.
Written(mode) == \E i \in DOMAIN calls : calls[i].mode = mode /\ calls[i].computed

\* The paper an entry stands for: its tracked fields, the others empty.
PaperOf(entry, mode) ==
    IF mode = InternalLinking
    THEN [f \in TrackedFields |-> entry[f]]
    ELSE [DefaultPaper EXCEPT !.text = entry.text, !.locale = entry.locale]

\* C6: the data of an entry that was written is the result of the computation
\* for the tracked fields of that same entry.
EntryConsistency ==
    \A mode \in {InternalLinking, Insights} :
        Written(mode) => Stored(mode).data = Computed(PaperOf(Stored(mode), mode), mode)

\* Both entries written, for papers of different texts, the internal-linking one
\* with a title.
EntryConsistencyWitness ==
    /\ Written(InternalLinking) /\ Written(Insights)
    /\ previousRelevantWordsInternalLinking.text # previousRelevantWordsInsights.text
    /\ previousRelevantWordsInternalLinking.title # <<>>
    /\ previousRelevantWordsInternalLinking.data.items # <<>>
    /\ Len(calls) = 3

\* C7: of two callers of one mode with different papers, each gets the result
\* computed from its own paper.
NoLostUpdate ==
    \A i, j \in DOMAIN calls :
        (i < j /\ calls[i].mode = calls[j].mode /\ calls[i].paper # calls[j].paper)
            => /\ calls[i].result = Computed(calls[i].paper, calls[i].mode)
               /\ calls[j].result = Computed(calls[j].paper, calls[j].mode)

(***************************************************************************)
(* The claims about the computed result.                                   *)
(***************************************************************************)
MinOccurrences(mode) ==
    IF mode = InternalLinking THEN MinOccurrencesInternalLinking ELSE MinOccurrencesInsights

MaxWordsOf(mode) ==
    IF mode = InternalLinking THEN MaxWordsInternalLinking ELSE MaxWordsInsights

\* The collapsed words of the last call's paper in the last call's mode.
LastCollapsed == collapsedWords(Last.paper, Last.mode = InternalLinking)

\* The entries have enough occurrences for the mode, and no stem of one
\* combined occurrence is among them.
MeetsThreshold(items, collapsed, mode) ==
    /\ \A i \in DOMAIN items : items[i].occurrences >= MinOccurrences(mode)
    /\ \A k \in DOMAIN collapsed :
           collapsed[k].occurrences = 1 =>
               \A i \in DOMAIN items : items[i].stem # collapsed[k].stem

\* C8: every entry of a computed internal-linking result has at least 2
\* occurrences, every entry of a computed insights result at least 5; a stem of
\* one combined occurrence is in neither.
ThresholdFiltering ==
    (calls # <<>> /\ Last.computed) =>
        MeetsThreshold(Last.result.items, LastCollapsed, Last.mode)

HasOccurrences(collapsed, n) == \E k \in DOMAIN collapsed : collapsed[k].occurrences = n

\* A computed insights result that is not empty, of a paper that has a stem of
\* one occurrence and a stem of four.
ThresholdFilteringWitness ==
    /\ calls # <<>> /\ Last.computed
    /\ Last.mode = Insights
    /\ Last.result.items # <<>>
    /\ Last.paper.title # <<>>
    /\ Last.paper.text = ArticleText
    /\ Last.paper.locale # DefaultLocale
    /\ HasOccurrences(LastCollapsed, 1)
    /\ HasOccurrences(LastCollapsed, 4)

\* The places in the collapsed words of the entries of enough occurrences.
Qualifying(collapsed, mode) ==
    {k \in DOMAIN collapsed : collapsed[k].occurrences >= MinOccurrences(mode)}

\* The items are the first entries of the collapsed words at the places Q, in
\* their order, as many as there are up to the limit.
IsFirstOf(items, collapsed, Q, limit) ==
    /\ Len(items) = (IF Cardinality(Q) < limit THEN Cardinality(Q) ELSE limit)
    /\ Len(items) <= limit
    /\ \A k \in Q :
           LET rank == Cardinality({j \in Q : j <= k})
           IN  rank <= limit =>
                   /\ items[rank].word = collapsed[k].word
                   /\ items[rank].stem = collapsed[k].stem
                   /\ items[rank].occurrences = collapsed[k].occurrences

CapHolds(items, collapsed, mode) ==
    IsFirstOf(items, collapsed, Qualifying(collapsed, mode), MaxWordsOf(mode))

\* C9: a computed result is the first min(N, limit) qualifying entries of the
\* sorted collapsed words, in their order, N the number of qualifying entries
\* and limit 100 for internal linking, 20 for insights.
CapEnforcement ==
    (calls # <<>> /\ Last.computed) =>
        CapHolds(Last.result.items, LastCollapsed, Last.mode)

\* A computed insights result of exactly 20 entries, of a paper with more than
\* 20 qualifying stems.
CapEnforcementWitness ==
    /\ calls # <<>> /\ Last.computed
    /\ Last.mode = Insights
    /\ Len(Last.result.items) = MaxWordsInsights
    /\ Cardinality(Qualifying(LastCollapsed, Insights)) > MaxWordsInsights

\* The words of a result, in order.
WordsOf(result) == [i \in DOMAIN result.items |-> result.items[i].word]

IsRanked(items) ==
    \A i, j \in DOMAIN items :
        i < j =>
            \/ items[i].occurrences > items[j].occurrences
            \/ /\ items[i].occurrences = items[j].occurrences
               /\ LexLess(items[i].word, items[j].word)

\* C10: of two entries of a returned result, the earlier one has more
\* occurrences, or as many and the word that comes first; dog 5, cat 5, bird 3
\* are returned as cat, dog, bird.
RankingOrder ==
    calls # <<>> =>
        /\ IsRanked(Last.result.items)
        /\ (/\ Last.mode = InternalLinking
            /\ Last.paper = [DefaultPaper EXCEPT !.text = RankingText])
               => WordsOf(Last.result) = <<cat, dog, bird>>

\* The internal-linking result of dog 5, cat 5, bird 3.
RankingOrderWitness ==
    /\ calls # <<>>
    /\ Last.mode = InternalLinking
    /\ Last.paper = [DefaultPaper EXCEPT !.text = RankingText]
    /\ Last.computed
    /\ Len(Last.result.items) = 3
    /\ Last.result.items[1].occurrences = Last.result.items[2].occurrences

(***************************************************************************)
(* The claims about the words that are counted.                            *)
(***************************************************************************)
\* The stems of the words of a string, one for every occurrence of a word.
StemsOf(string, languageMorphologyData) ==
    LET tokens == Tokens(string)
    IN  Array([i \in DOMAIN tokens |-> Stem(tokens[i], languageMorphologyData)])

\* How often a stem occurs among stems.
CountOf(stems, stem) == Cardinality({i \in DOMAIN stems : stems[i] = stem})

\* The morphology data the computation uses for a paper.
MorphologyDataOf(paper) ==
    get(morphologyData, getLanguage(paper.locale), NoMorphologyData)

\* The stems of the text outside its top-level subheadings, and within them.
BodyStems(paper) ==
    StemsOf(SelectSeq(paper.text, LAMBDA block : ~block.heading),
            MorphologyDataOf(paper))

SubheadingStems(paper) ==
    StemsOf(SelectSeq(paper.text, LAMBDA block : block.heading),
            MorphologyDataOf(paper))

\* The stems of keyphrase, synonyms, meta description, title and top-level
\* subheadings.
AttributeStems(paper) ==
    StemsOf(paper.keyword \o paper.synonyms \o paper.description \o paper.title,
            MorphologyDataOf(paper))
        \o SubheadingStems(paper)

\* Every collapsed word has the occurrences of its stem among the plain stems
\* plus factor times those among the weighted stems, and every weighted stem
\* has a collapsed word.
IsWeighted(collapsed, plain, weighted, factor) ==
    /\ \A k \in DOMAIN collapsed :
           collapsed[k].occurrences =
               CountOf(plain, collapsed[k].stem)
                   + factor * CountOf(weighted, collapsed[k].stem)
    /\ \A i \in DOMAIN weighted :
           \E k \in DOMAIN collapsed : collapsed[k].stem = weighted[i]

\* C11: for internal linking the occurrences of a stem are its occurrences in
\* the text outside the top-level subheadings plus 3 times its occurrences in
\* keyphrase, synonyms, meta description, title and top-level subheadings, so
\* a word once in the text and once in the title has 4 occurrences; for
\* insights they are its occurrences in the text, no attribute counted and
\* nothing multiplied.
AttributeWeighting ==
    (calls # <<>> /\ Last.computed) =>
        /\ IF Last.mode = InternalLinking
           THEN IsWeighted(LastCollapsed, BodyStems(Last.paper),
                           AttributeStems(Last.paper), 3)
           ELSE IsWeighted(LastCollapsed, StemsOf(Last.paper.text,
                                                  MorphologyDataOf(Last.paper)),
                           <<>>, 3)
        /\ (Last.mode = InternalLinking /\ Last.paper = WeightingPaper) =>
               Last.result.items =
                   <<[word |-> yoast, stem |-> yoast, occurrences |-> 4]>>

\* An internal linking computation for a word once in the text and once in
\* the title.
AttributeWeightingWitness ==
    /\ calls # <<>>
    /\ Last.computed
    /\ Last.mode = InternalLinking
    /\ Last.paper = WeightingPaper
    /\ Len(Last.result.items) = 1
    /\ Last.result.items[1].occurrences = 4

\* Every returned object has the rounded occurrences of a collapsed word.
IsRounded(items, collapsed) ==
    \A i \in DOMAIN items :
        \E k \in DOMAIN collapsed :
            /\ collapsed[k].word = items[i].word
            /\ collapsed[k].stem = items[i].stem
            /\ Number(items[i].occurrences) =
                   formatNumber(Number(collapsed[k].occurrences))

HasNoAttributes(paper) ==
    /\ paper.description = <<>>
    /\ paper.keyword = <<>>
    /\ paper.synonyms = <<>>
    /\ paper.title = <<>>

\* The occurrences a stem has among collapsed words, 0 when it has none.
OccurrencesOf(collapsed, stem) ==
    LET places == {k \in DOMAIN collapsed : collapsed[k].stem = stem}
    IN  IF places = {} THEN 0
        ELSE collapsed[CHOOSE k \in places : TRUE].occurrences

\* The paper with the top-level subheadings cut out of its text.
WithoutSubheadings(paper) ==
    [paper EXCEPT !.text = SelectSeq(@, LAMBDA block : ~block.heading)]

\* Every collapsed word has the occurrences its stem has for the paper
\* without subheadings plus weight times those in the subheadings, and every
\* stem of a subheading has a collapsed word.
SubheadingsWeigh(collapsed, without, subheadingStems, weight) ==
    /\ \A k \in DOMAIN collapsed :
           collapsed[k].occurrences =
               OccurrencesOf(without, collapsed[k].stem)
                   + weight * CountOf(subheadingStems, collapsed[k].stem)
    /\ \A i \in DOMAIN subheadingStems :
           \E k \in DOMAIN collapsed : collapsed[k].stem = subheadingStems[i]

\* The article with nothing but its text: yoast is in its subheading only.
IsBareArticle(paper) == paper.text = ArticleText /\ HasNoAttributes(paper)

\* C14: against the same paper without its top-level subheadings, a word of
\* a top-level subheading adds 3 per occurrence for internal linking, so that
\* a word once in a subheading and nowhere else has 3 occurrences and not 4,
\* and adds 1 per occurrence for insights.
SubheadingHandling ==
    (calls # <<>> /\ Last.computed) =>
        /\ SubheadingsWeigh(
               LastCollapsed,
               collapsedWords(WithoutSubheadings(Last.paper),
                              Last.mode = InternalLinking),
               SubheadingStems(Last.paper),
               IF Last.mode = InternalLinking THEN 3 ELSE 1)
        /\ IsBareArticle(Last.paper) =>
               OccurrencesOf(LastCollapsed, yoast) =
                   IF Last.mode = InternalLinking THEN 3 ELSE 1

\* An internal linking result with the word that is in the subheading only.
SubheadingHandlingWitness ==
    /\ calls # <<>>
    /\ Last.computed
    /\ Last.mode = InternalLinking
    /\ IsBareArticle(Last.paper)
    /\ \E i \in DOMAIN Last.result.items :
           /\ Last.result.items[i].word = yoast
           /\ Last.result.items[i].occurrences = 3

\* The places of the combined words that hold a given stem.
PlacesOfStem(combined, stem) == {k \in DOMAIN combined : combined[k].stem = stem}

\* No two returned objects share a stem, and the occurrences of each are the
\* sum of the occurrences of the combined words of its stem.
IsCombined(items, combined) ==
    /\ \A i, j \in DOMAIN items : i # j => items[i].stem # items[j].stem
    /\ \A i \in DOMAIN items :
           items[i].occurrences =
               SumOccurrences(combined, PlacesOfStem(combined, items[i].stem))

\* C15: a computed result has at most one entry per stem, and the occurrences
\* of an entry are the sum of the occurrences, weighted where they come from
\* an attribute, of all the words of attributes and text that share its stem.
Combination ==
    (calls # <<>> /\ Last.computed) =>
        IsCombined(Last.result.items,
                   combinedWords(Last.paper, Last.mode = InternalLinking))

\* Some returned object stands for several combined words.
HasMerged(items, combined) ==
    \E i \in DOMAIN items :
        \E k, l \in PlacesOfStem(combined, items[i].stem) :
            combined[k].word # combined[l].word

\* An internal linking result with an entry that merges two words of one
\* stem.
CombinationWitness ==
    /\ calls # <<>>
    /\ Last.computed
    /\ Last.mode = InternalLinking
    /\ HasMerged(Last.result.items, combinedWords(Last.paper, TRUE))

(***************************************************************************)
(* The claims about papers without text and first calls.                   *)
(***************************************************************************)
\* Call i returns a result without entries and raises nothing.
ReturnsNoEntries(i) == ~calls[i].raised /\ calls[i].result.items = <<>>

\* C13, as claimed: a call with a paper whose text is empty returns a result
\* without entries and raises nothing, in either mode, whatever the other
\* fields of the paper and the calls before.
EmptyText ==
    \A i \in DOMAIN calls : calls[i].paper.text = <<>> => ReturnsNoEntries(i)

\* C13: a call with a paper whose text is empty returns a result without
\* entries and raises nothing when it is an insights call, whatever the other
\* fields, or an internal linking call whose paper has an empty description,
\* keyphrase, synonyms and title as well; whatever the calls before.
EmptyTextWithoutAttributes ==
    \A i \in DOMAIN calls :
        (/\ calls[i].paper.text = <<>>
         /\ calls[i].mode = Insights \/ HasNoAttributes(calls[i].paper)) =>
            ReturnsNoEntries(i)

\* An insights call with an empty text and a title, after a call that stored
\* words.
EmptyTextWithoutAttributesWitness ==
    \E i \in DOMAIN calls :
        /\ i > 1
        /\ calls[i].mode = Insights
        /\ calls[i - 1].mode = Insights
        /\ calls[i - 1].result.items # <<>>
        /\ calls[i].paper.text = <<>>
        /\ calls[i].paper.title # <<>>
        /\ ReturnsNoEntries(i)

\* C16: the first call of each entry point in a fresh process differs from
\* the initial entry and performs the computation, whatever its paper.
FirstCallRecomputes ==
    \A i \in DOMAIN calls :
        (\A j \in 1..(i - 1) : calls[j].mode # calls[i].mode) => calls[i].computed

(***************************************************************************)
(* The claims about calls that raise and about what insights depend on.    *)
(***************************************************************************)
\* Calls i - 1, i, i + 1 are of one mode, call i raises, call i - 1 does not,
\* and the paper of call i + 1 has the tracked fields of the paper of call
\* i - 1.
IsRetryAfterFailure(i) ==
    /\ i > 1
    /\ i < Len(calls)
    /\ calls[i].raised
    /\ ~calls[i - 1].raised
    /\ calls[i - 1].mode = calls[i].mode
    /\ calls[i + 1].mode = calls[i].mode
    /\ \A f \in Tracked(calls[i].mode) : calls[i + 1].paper[f] = calls[i - 1].paper[f]

RetryAfterFailureIsHit ==
    \A i \in DOMAIN calls :
        IsRetryAfterFailure(i) =>
            /\ ~calls[i + 1].computed
            /\ ~calls[i + 1].raised
            /\ calls[i + 1].result = calls[i - 1].result

\* C17: a call whose computation raises changes neither entry, and the next
\* call of its mode with the tracked fields stored before it is a hit that
\* returns the data stored before it.
FailureKeepsCache ==
    /\ [][(IsCall /\ NewCall.raised) =>
              (/\ previousRelevantWordsInternalLinking' =
                      previousRelevantWordsInternalLinking
               /\ previousRelevantWordsInsights' = previousRelevantWordsInsights)]_vars
    /\ []RetryAfterFailureIsHit

\* A call that stores words, a call that raises, and the first paper again:
\* a hit with the words of the first call.
FailureKeepsCacheWitness ==
    \E i \in DOMAIN calls :
        /\ IsRetryAfterFailure(i)
        /\ calls[i - 1].computed
        /\ calls[i - 1].result.items # <<>>
        /\ ~calls[i + 1].computed
        /\ calls[i + 1].result = calls[i - 1].result

\* The paper with empty description, keyphrase, synonyms and title.
WithoutAttributes(paper) ==
    [paper EXCEPT !.description = <<>>, !.keyword = <<>>,
                  !.synonyms = <<>>, !.title = <<>>]

\* C18: the insights computation gives a paper the result it gives the paper
\* of the same text and locale without attributes, and an insights call made
\* once a miss has stored an entry returns what the computation gives its own
\* paper, on a hit as well.
InsightsKeySufficient ==
    (calls # <<>> /\ Last.mode = Insights /\ Written(Insights)) =>
        /\ Computed(Last.paper, Insights) =
               Computed(WithoutAttributes(Last.paper), Insights)
        /\ Last.result = Computed(Last.paper, Insights)

\* An insights hit on an entry with words, computed for a paper of another
\* title.
InsightsKeySufficientWitness ==
    /\ Len(calls) > 1
    /\ Last.mode = Insights
    /\ ~Last.computed
    /\ Last.result.items # <<>>
    /\ calls[Len(calls) - 1].mode = Insights
    /\ calls[Len(calls) - 1].computed
    /\ calls[Len(calls) - 1].paper.title # Last.paper.title

====
